---- MODULE Spec2Model ----
(***************************************************************************)
(* Model of cmds/core/mount/mount.go (u-root): the mount command.          *)
(*                                                                         *)
(* One run of main() is a behaviour.  The command line (positional         *)
(* arguments, -o values, boolean switches, -t), and the files the program  *)
(* reads, are chosen in Init; the outcomes of the collaborators            *)
(* (loop.FindDevice, loop.SetFile, mount.TryMount, mount.Mount) are chosen *)
(* when they are called.  Every effect visible outside the process (file   *)
(* reads, prints, log lines, collaborator calls, exit) is appended to      *)
(* trace in program order.                                                 *)
(***************************************************************************)
EXTENDS Integers, Sequences, FiniteSets, TLC

VARIABLES
    files,      \* path -> [ok, data]: what ioutil.ReadFile returns for the path
    kernelFS,   \* the lines (each a sequence of fields) /proc/filesystems was rendered from
    args,       \* flag.Args(): the positional arguments
    oValues,    \* the values of the -o occurrences, in command-line order
    switches,   \* the boolean switches given on the command line
    fsType,     \* *fsType, the value of -t
    parse,      \* what flag.Parse makes of the command line: [status, at]
    pc,         \* position in main
    k,          \* index of the mount-table path being tried (line 112)
    options,    \* the global options (mountOptions)
    dev,        \* main's dev
    path,       \* main's path
    i,          \* index of the option being translated (line 133)
    flags,      \* main's flags
    data,       \* main's data
    exitCode,   \* process exit status, -1 while running
    loopBound,  \* backing file of /dev/loop0, /dev/loop1, ... (loop devices in use)
    trace       \* externally visible events, in order

vars == <<files, kernelFS, args, oValues, switches, fsType, parse, pc, k, options,
          dev, path, i, flags, data, exitCode, loopBound, trace>>

inputs == <<files, kernelFS, args, oValues, switches, fsType, parse>>

----------------------------------------------------------------------------
(* Bounds *)

\* Largest number of -o occurrences on the command line.
MaxOptArgs == 2

----------------------------------------------------------------------------
(* strings package *)
(* A command-line string is a TLA+ string.  The text of /proc/filesystems   *)
(* is the sequence of its Unicode code points, the runes strings.Fields     *)
(* decodes it to; Split, whose separators are single ASCII characters,      *)
(* takes either form, with the separator as a one-element string or         *)
(* sequence.                                                                *)

\* Position of the first occurrence of the one-element c in s, 0 if none.
IndexOf(s, c) ==
    LET I == {j \in 1..Len(s) : SubSeq(s, j, j) = c}
    IN  IF I = {} THEN 0 ELSE CHOOSE j \in I : \A h \in I : j <= h

RECURSIVE Split(_, _)
Split(s, sep) ==
    LET j == IndexOf(s, sep)
    IN  IF j = 0 THEN <<s>>
        ELSE <<SubSeq(s, 1, j - 1)>> \o Split(SubSeq(s, j + 1, Len(s)), sep)

RECURSIVE Join(_, _)
Join(elems, sep) ==
    IF Len(elems) = 0 THEN ""
    ELSE IF Len(elems) = 1 THEN elems[1]
    ELSE elems[1] \o sep \o Join(Tail(elems), sep)

\* unicode.IsSpace, which strings.Fields splits around: '\t', '\n', '\v',
\* '\f', '\r', ' ', U+0085, U+00A0 and the other White_Space code points.
IsSpace(r) ==
    r \in {9, 10, 11, 12, 13, 32, 133, 160, 5760, 8232, 8233, 8239, 8287, 12288}
           \cup (8192..8202)

\* strings.Fields on a sequence of runes.
RECURSIVE Fields(_)
Fields(s) ==
    IF Len(s) = 0 THEN <<>>
    ELSE IF IsSpace(s[1]) THEN Fields(SubSeq(s, 2, Len(s)))
    ELSE LET W == {j \in 1..Len(s) : IsSpace(s[j])}
             e == IF W = {} THEN Len(s) + 1 ELSE CHOOSE j \in W : \A h \in W : j <= h
         IN  <<SubSeq(s, 1, e - 1)>> \o Fields(SubSeq(s, e, Len(s)))

\* The printable ASCII characters a string of the model can hold, in code
\* order: U+0020 to U+005F and U+0061 to U+007E.
PrintableLow ==
    " !\"#$%&'()*+,-./0123456789:;<=>?@ABCDEFGHIJKLMNOPQRSTUVWXYZ[\\]^_"

PrintableHigh == "abcdefghijklmnopqrstuvwxyz{|}~"

\* The rune of a one-character string: a printable ASCII character or one of
\* the control characters a string can be written with.  It has no value for
\* any other character (evaluation stops there instead of giving a rune the
\* character does not have).
Rune(c) ==
    CASE c = "\t" -> 9
      [] c = "\n" -> 10
      [] c = "\f" -> 12
      [] c = "\r" -> 13
      [] IndexOf(PrintableLow, c) > 0 -> 31 + IndexOf(PrintableLow, c)
      [] IndexOf(PrintableHigh, c) > 0 -> 96 + IndexOf(PrintableHigh, c)

\* The runes of a string made of those characters.
Runes(str) == [j \in 1..Len(str) |-> Rune(SubSeq(str, j, j))]

----------------------------------------------------------------------------
(* uintptr bit operations *)

RECURSIVE BitOr(_, _)
BitOr(a, b) ==
    IF a = 0 THEN b
    ELSE IF b = 0 THEN a
    ELSE (IF a % 2 = 1 \/ b % 2 = 1 THEN 1 ELSE 0) + 2 * BitOr(a \div 2, b \div 2)

MS_RDONLY == 1
MS_NOSUID == 2
MS_BIND == 4096
MS_REC == 16384
MS_UNBINDABLE == 131072
MS_PRIVATE == 262144
MS_SLAVE == 524288
MS_SHARED == 1048576

\* The option table main consults: option name -> flag bits.
opts ==
    [t \in {"rdonly", "nosuid", "bind", "rec"} |->
        CASE t = "rdonly" -> MS_RDONLY
          [] t = "nosuid" -> MS_NOSUID
          [] t = "bind"   -> MS_BIND
          [] t = "rec"    -> MS_REC]

----------------------------------------------------------------------------
(* Events *)

ReadEv(p, ok) == [ev |-> "read", path |-> p, ok |-> ok]
StdoutEv(text) == [ev |-> "stdout", text |-> text]
UsageEv == [ev |-> "usage"]
StderrEv(text) == [ev |-> "stderr", text |-> text]
FindDeviceEv(ok, d) == [ev |-> "loop.FindDevice", ok |-> ok, dev |-> d]
SetFileEv(d, f, ok) == [ev |-> "loop.SetFile", dev |-> d, file |-> f, ok |-> ok]
MountEv(kind, d, p, t, o, f, ok) ==
    [ev |-> kind, dev |-> d, path |-> p, fstype |-> t, data |-> o, flags |-> f, ok |-> ok]
LogEv(fmt, a) == [ev |-> "log", fmt |-> fmt, args |-> a]
ExitEv(code) == [ev |-> "exit", code |-> code]

----------------------------------------------------------------------------
(* mountOptions *)

\* (o *mountOptions) Set(value): append every comma-separated piece of value.
Set(o, value) == o \o Split(value, ",")

\* flag.Parse calls Set once per -o occurrence, in command-line order.
RECURSIVE ParseOptions(_, _)
ParseOptions(o, values) ==
    IF values = <<>> THEN o
    ELSE ParseOptions(Set(o, Head(values)), Tail(values))

----------------------------------------------------------------------------
(* loopSetup *)

\* The free loop device loop.FindDevice reports: the first one not in use.
FreeLoopDevice == "/dev/loop" \o ToString(Len(loopBound))

\* loopSetup with the error of loop.SetFile dropped.
loopSetup_IgnoreSetFileErr(filename, outcome, free) ==
    IF outcome = "nofree"
    THEN [dev |-> "", err |-> "no free loop device",
          calls |-> <<FindDeviceEv(FALSE, "")>>]
    ELSE [dev |-> free, err |-> "",
          calls |-> <<FindDeviceEv(TRUE, free),
                      SetFileEv(free, filename, outcome = "ok")>>]

\* loopSetup(filename) under the collaborators' outcome:
\*   "nofree"  loop.FindDevice fails
\*   "setfail" loop.FindDevice succeeds, loop.SetFile fails
\*   "ok"      both succeed
\* Returns the device, the error ("" is nil), and the collaborator calls made.
loopSetup(filename, outcome, free) ==
    IF outcome = "nofree"
    THEN [dev |-> "", err |-> "no free loop device",
          calls |-> <<FindDeviceEv(FALSE, "")>>]
    ELSE IF outcome = "setfail"
    THEN [dev |-> "", err |-> "could not set backing file",
          calls |-> <<FindDeviceEv(TRUE, free), SetFileEv(free, filename, FALSE)>>]
    ELSE [dev |-> free, err |-> "",
          calls |-> <<FindDeviceEv(TRUE, free), SetFileEv(free, filename, TRUE)>>]

----------------------------------------------------------------------------
(* getSupportedFilesystem, informIfUnknownFS *)

ProcFilesystems == "/proc/filesystems"

\* n[0] in place of n[last].
TypeField_First(n) == n[1]

\* n[last]: the field of a /proc/filesystems line that names the type.
TypeField(n) == n[Len(n)]

RECURSIVE ScanFilesystems(_, _, _)
ScanFilesystems(lines, originFS, acc) ==
    IF lines = <<>> THEN acc
    ELSE LET n == Fields(Head(lines))
         IN  IF Len(n) - 1 < 0
             THEN ScanFilesystems(Tail(lines), originFS, acc)
             ELSE ScanFilesystems(Tail(lines), originFS,
                      [list  |-> Append(acc.list, TypeField(n)),
                       known |-> acc.known \/ TypeField(n) = Runes(originFS),
                       err   |-> ""])

getSupportedFilesystem(originFS, file) ==
    IF ~file.ok
    THEN [list |-> <<>>, known |-> FALSE, err |-> "open /proc/filesystems failed"]
    ELSE ScanFilesystems(Split(file.data, <<10>>), originFS,
                         [list |-> <<>>, known |-> FALSE, err |-> ""])

HintFmt == "Hint: unknown filesystem %s. Known are: %v"

\* informIfUnknownFS reporting the prober's own error.
informIfUnknownFS_ReportErr(originFS, r) ==
    IF r.err # "" THEN <<LogEv("%v", <<r.err>>)>>
    ELSE IF ~r.known THEN <<LogEv(HintFmt, <<originFS, r.list>>)>>
    ELSE <<>>

\* What informIfUnknownFS logs, given getSupportedFilesystem's result.
informIfUnknownFS(originFS, r) ==
    IF r.err # "" THEN <<>>
    ELSE IF ~r.known THEN <<LogEv(HintFmt, <<originFS, r.list>>)>>
    ELSE <<>>

----------------------------------------------------------------------------
(* main: helpers *)

\* The mount-table paths in another order.
MountTablePaths_Reordered == <<"/etc/mtab", "/proc/mounts", "/proc/self/mounts">>

MountTablePaths == <<"/proc/self/mounts", "/proc/mounts", "/etc/mtab">>

\* len(flag.Args()) < 1
TooFewArgs_OffByOne(a) == Len(a) < 1

\* len(flag.Args()) < 2
TooFewArgs(a) == Len(a) < 2

\* flags = f
OrFlag_Assign(fl, f) == f

\* flags |= f
OrFlag(fl, f) == BitOr(fl, f)

\* append that skips empty options.
AppendData_SkipEmpty(d, option) == IF option = "" THEN d ELSE Append(d, option)

\* data = append(data, option)
AppendData(d, option) == Append(d, option)

\* *rbind || *makeRShared || *makeRSlave || *makeRPrivate || *makeRUnbindable
AnyRecursive(sw) ==
    sw \cap {"rbind", "make-rshared", "make-rslave", "make-rprivate",
             "make-runbindable"} # {}

\* unix.MS_REC alone.
RecursiveBits_RecOnly == MS_REC

\* unix.MS_BIND | unix.MS_REC
RecursiveBits == BitOr(MS_BIND, MS_REC)

\* Lines 148-168: the bits of the convenience switches, OR-ed in fixed order.
SwitchFlags(fl, sw) ==
    LET f1 == IF "r" \in sw THEN OrFlag(fl, MS_RDONLY) ELSE fl
        f2 == IF "bind" \in sw \/ "rbind" \in sw THEN OrFlag(f1, MS_BIND) ELSE f1
        f3 == IF "make-shared" \in sw \/ "make-rshared" \in sw
              THEN OrFlag(f2, MS_SHARED) ELSE f2
        f4 == IF "make-slave" \in sw \/ "make-rslave" \in sw
              THEN OrFlag(f3, MS_SLAVE) ELSE f3
        f5 == IF "make-private" \in sw \/ "make-rprivate" \in sw
              THEN OrFlag(f4, MS_PRIVATE) ELSE f4
        f6 == IF "make-unbindable" \in sw \/ "make-runbindable" \in sw
              THEN OrFlag(f5, MS_UNBINDABLE) ELSE f5
    IN  IF AnyRecursive(sw) THEN OrFlag(f6, RecursiveBits) ELSE f6

\* *fsType != ""
GuessType_Inverted(t) == t # ""

\* *fsType == ""
GuessType(t) == t = ""

Emit(evs) == trace' = trace \o evs

Exit(code, evs) ==
    /\ Emit(evs \o <<ExitEv(code)>>)
    /\ pc' = "exited"
    /\ exitCode' = code

----------------------------------------------------------------------------
(* main: steps *)

\* Lines 112-117: try the next mount-table path; print it and exit 0 if readable.
ReadMountTable ==
    /\ pc = "list"
    /\ k <= Len(MountTablePaths)
    /\ LET p == MountTablePaths[k]
           r == files[p]
       IN  IF r.ok
           THEN /\ Exit(0, <<ReadEv(p, TRUE), StdoutEv(r.data)>>)
                /\ UNCHANGED k
           ELSE /\ Emit(<<ReadEv(p, FALSE)>>)
                /\ k' = k + 1
                /\ UNCHANGED <<pc, exitCode>>
    /\ UNCHANGED <<inputs, options, dev, path, i, flags, data, loopBound>>

\* Line 119: flag.Parse on flag.CommandLine (ExitOnError).  It calls Set for
\* the -o occurrences it gets to.  An argument it rejects (a flag not defined,
\* a missing or malformed value) makes it print the error and the usage and
\* exit 2; -h or -help makes it print the usage and exit, with 0 or with 2
\* depending on the Go release the program is built with.
FlagParse ==
    /\ pc = "list"
    /\ k > Len(MountTablePaths)
    /\ options' = ParseOptions(options, SubSeq(oValues, 1, parse.at))
    /\ CASE parse.status = "ok" ->
               /\ pc' = "args"
               /\ UNCHANGED <<exitCode, trace>>
         [] parse.status = "badflag" ->
               Exit(2, <<StderrEv("flag error"), UsageEv>>)
         [] parse.status = "help" ->
               \E code \in {0, 2} : Exit(code, <<UsageEv>>)
    /\ UNCHANGED <<inputs, k, dev, path, i, flags, data, loopBound>>

\* Lines 120-123: usage and exit 1.
UsageExit ==
    /\ pc = "args"
    /\ TooFewArgs(args)
    /\ Exit(1, <<UsageEv>>)
    /\ UNCHANGED <<inputs, k, options, dev, path, i, flags, data, loopBound>>

\* Lines 124-132.
TakeArgs ==
    /\ pc = "args"
    /\ ~TooFewArgs(args)
    /\ dev' = args[1]
    /\ path' = IF Len(args) > 1 THEN args[2] ELSE ""
    /\ flags' = 0
    /\ data' = <<>>
    /\ i' = 1
    /\ pc' = "translate"
    /\ UNCHANGED <<inputs, k, options, exitCode, loopBound, trace>>

\* Lines 135-139: case "loop".
TranslateLoop ==
    /\ pc = "translate"
    /\ i <= Len(options)
    /\ options[i] = "loop"
    /\ \E outcome \in {"ok", "nofree", "setfail"} :
         LET r == loopSetup(dev, outcome, FreeLoopDevice)
             bound == {j \in 1..Len(r.calls) :
                          r.calls[j].ev = "loop.SetFile" /\ r.calls[j].ok}
         IN  /\ loopBound' = IF bound = {} THEN loopBound ELSE Append(loopBound, dev)
             /\ dev' = r.dev
             /\ IF r.err # ""
                THEN /\ Exit(1, r.calls \o
                              <<LogEv("Error setting loop device:", <<r.err>>)>>)
                     /\ UNCHANGED i
                ELSE /\ Emit(r.calls)
                     /\ i' = i + 1
                     /\ UNCHANGED <<pc, exitCode>>
    /\ UNCHANGED <<inputs, k, options, path, flags, data>>

\* Lines 141-142: the option is in opts.
TranslateFlag ==
    /\ pc = "translate"
    /\ i <= Len(options)
    /\ options[i] # "loop"
    /\ options[i] \in DOMAIN opts
    /\ flags' = OrFlag(flags, opts[options[i]])
    /\ i' = i + 1
    /\ UNCHANGED <<inputs, pc, k, options, dev, path, data, exitCode, loopBound, trace>>

\* Lines 143-145: the option is not in opts.
TranslateData ==
    /\ pc = "translate"
    /\ i <= Len(options)
    /\ options[i] # "loop"
    /\ options[i] \notin DOMAIN opts
    /\ data' = AppendData(data, options[i])
    /\ i' = i + 1
    /\ UNCHANGED <<inputs, pc, k, options, dev, path, flags, exitCode, loopBound, trace>>

\* Lines 148-168.
ApplySwitches ==
    /\ pc = "translate"
    /\ i > Len(options)
    /\ flags' = SwitchFlags(flags, switches)
    /\ pc' = "mount"
    /\ UNCHANGED <<inputs, k, options, dev, path, i, data, exitCode, loopBound, trace>>

\* Lines 169-172: mount.TryMount; log.Fatalf on failure.
DoTryMount ==
    /\ pc = "mount"
    /\ GuessType(fsType)
    /\ \E ok \in BOOLEAN :
         LET call == MountEv("mount.TryMount", dev, path, "", Join(data, ","), flags, ok)
         IN  IF ok THEN Exit(0, <<call>>)
             ELSE Exit(1, <<call, LogEv("%v", <<"mount error">>)>>)
    /\ UNCHANGED <<inputs, k, options, dev, path, i, flags, data, loopBound>>

\* Lines 173-175: mount.Mount; log.Printf on failure.
DoMount ==
    /\ pc = "mount"
    /\ ~GuessType(fsType)
    /\ \E ok \in BOOLEAN :
         LET call == MountEv("mount.Mount", dev, path, fsType, Join(data, ","), flags, ok)
         IN  IF ok
             THEN Exit(0, <<call>>)
             ELSE /\ Emit(<<call, LogEv("%v", <<"mount error">>)>>)
                  /\ pc' = "inform"
                  /\ UNCHANGED exitCode
    /\ UNCHANGED <<inputs, k, options, dev, path, i, flags, data, loopBound>>

\* Line 176: informIfUnknownFS(*fsType).
InformIfUnknownFS ==
    /\ pc = "inform"
    /\ LET file == files[ProcFilesystems]
           r == getSupportedFilesystem(fsType, file)
       IN  Emit(<<ReadEv(ProcFilesystems, file.ok)>> \o informIfUnknownFS(fsType, r))
    /\ pc' = "exit1"
    /\ UNCHANGED <<inputs, k, options, dev, path, i, flags, data, exitCode, loopBound>>

\* Line 177: os.Exit(1).
ExitAfterInform ==
    /\ pc = "exit1"
    /\ Exit(1, <<>>)
    /\ UNCHANGED <<inputs, k, options, dev, path, i, flags, data, loopBound>>

Next ==
    \/ ReadMountTable
    \/ FlagParse
    \/ UsageExit
    \/ TakeArgs
    \/ TranslateLoop
    \/ TranslateFlag
    \/ TranslateData
    \/ ApplySwitches
    \/ DoTryMount
    \/ DoMount
    \/ InformIfUnknownFS
    \/ ExitAfterInform

----------------------------------------------------------------------------
(* Inputs *)

\* What each mount-table file holds when it is readable.
MountTableData ==
    [p \in {"/proc/self/mounts", "/proc/mounts", "/etc/mtab"} |->
        CASE p = "/proc/self/mounts" -> "proc /proc proc rw 0 0\n"
          [] p = "/proc/mounts"      -> "sysfs /sys sysfs rw 0 0\n"
          [] p = "/etc/mtab"         -> "tmpfs /tmp tmpfs rw 0 0\n"]

\* A line of /proc/filesystems, its fields separated by the rune sep: the
\* kernel writes "nodev\ttype" or "\ttype" (sep is the tab, 9).
RECURSIVE RenderLine(_, _)
RenderLine(fs, sep) ==
    IF Len(fs) = 0 THEN <<>>
    ELSE IF Len(fs) = 1 THEN <<sep>> \o Runes(fs[1])
    ELSE Runes(fs[1]) \o
         (IF Len(fs) = 2 THEN <<sep>> \o Runes(fs[2]) ELSE RenderLine(Tail(fs), sep))

\* The text of /proc/filesystems: every line followed by '\n' (10).
RECURSIVE RenderFilesystems(_, _)
RenderFilesystems(lines, sep) ==
    IF lines = <<>> THEN <<>>
    ELSE RenderLine(Head(lines), sep) \o <<10>> \o RenderFilesystems(Tail(lines), sep)

Listings ==
    { << <<"nodev", "sysfs">>, <<"ext4">>, <<"vfat">> >>,
      << <<"nodev", "ext9">>, <<>>, <<"ext4">> >> }

\* What reading /proc/filesystems gives: the kernel's text, the same lines
\* with another white-space rune ('\v', U+00A0, U+2003) between the fields,
\* or an error.
ProcChoices ==
    [ok : {TRUE}, lines : Listings, sep : {9}]
        \cup [ok : {TRUE}, lines : {<< <<"nodev", "ext9">>, <<>>, <<"ext4">> >>},
              sep : {11, 160, 8195}]
        \cup {[ok |-> FALSE, lines |-> << <<"ext4">> >>, sep |-> 9]}

KernelListing ==
    [ok |-> TRUE, lines |-> << <<"nodev", "sysfs">>, <<"ext4">>, <<"vfat">> >>, sep |-> 9]

Unreadable == [ok |-> FALSE, lines |-> << <<"ext4">> >>, sep |-> 9]

FileSystem(readable, proc) ==
    [p \in {"/proc/self/mounts", "/proc/mounts", "/etc/mtab", ProcFilesystems} |->
        IF p = ProcFilesystems
        THEN [ok |-> proc.ok,
              data |-> IF proc.ok THEN RenderFilesystems(proc.lines, proc.sep) ELSE <<>>]
        ELSE [ok |-> p \in readable,
              data |-> IF p \in readable THEN MountTableData[p] ELSE ""]]

OptValues == {"loop", "rdonly,gid=1", "uid=0,,nosuid", "rec,bind"}

OptSeqs == UNION {[1..n -> OptValues] : n \in 0..MaxOptArgs}

ArgChoices ==
    {<<>>, <<"backing.img">>, <<"backing.img", "/mnt">>,
     <<"backing.img", "/mnt", "extra">>}

SwitchNames ==
    {"r", "bind", "rbind", "make-shared", "make-slave", "make-private",
     "make-unbindable", "make-rshared", "make-rslave", "make-rprivate",
     "make-runbindable"}

\* -t values; the last is the text of the kernel's line for ext4, tab included.
FsTypes == {"", "ext9", "vfat", "nodev", "\text4"}

\* Command lines and file systems that exercise the listing and usage paths.
ListingInputs ==
    [readable : SUBSET {"/proc/self/mounts", "/proc/mounts", "/etc/mtab"},
     proc     : {KernelListing},
     args     : ArgChoices,
     oValues  : OptSeqs,
     switches : {{}, {"r"}},
     fsType   : {"", "ext9"},
     parse    : {"ok"}]

\* Command lines flag.Parse does not accept: an argument it rejects, or -h,
\* after the first at of the -o occurrences.
RejectedInputs ==
    {in \in [readable : {{}, {"/etc/mtab"}},
             proc     : {KernelListing},
             args     : ArgChoices,
             oValues  : OptSeqs,
             switches : {{}},
             fsType   : {""},
             parse    : {"badflag", "help"},
             at       : 0..MaxOptArgs] : in.at <= Len(in.oValues)}

\* Command lines that reach option translation and the mount call.
MountInputs ==
    [readable : {{}},
     proc     : ProcChoices,
     args     : {a \in ArgChoices : Len(a) >= 2},
     oValues  : OptSeqs,
     switches : {{}, {"r", "bind"}, {"make-rslave"}},
     fsType   : FsTypes,
     parse    : {"ok"}]

\* Every combination of the switches.
SwitchInputs ==
    [readable : {{}},
     proc     : {Unreadable},
     args     : {<<"backing.img", "/mnt">>},
     oValues  : {<<>>, <<"rdonly,gid=1">>, <<"rec,bind">>},
     switches : SUBSET SwitchNames,
     fsType   : {""},
     parse    : {"ok"}]

Init ==
    /\ \E in \in ListingInputs \cup RejectedInputs \cup MountInputs \cup SwitchInputs :
         /\ files = FileSystem(in.readable, in.proc)
         /\ kernelFS = in.proc.lines
         /\ args = in.args
         /\ oValues = in.oValues
         /\ switches = in.switches
         /\ fsType = in.fsType
         /\ parse = IF in.parse = "ok"
                    THEN [status |-> "ok", at |-> Len(in.oValues)]
                    ELSE [status |-> in.parse, at |-> in.at]
    /\ pc = "list"
    /\ k = 1
    /\ options = <<>>
    /\ dev = ""
    /\ path = ""
    /\ i = 0
    /\ flags = 0
    /\ data = <<>>
    /\ exitCode = -1
    /\ loopBound = <<>>
    /\ trace = <<>>

Spec == Init /\ [][Next]_vars

----------------------------------------------------------------------------
(* Properties: shared vocabulary *)

Range(f) == {f[j] : j \in DOMAIN f}

Evs(kinds) == {j \in 1..Len(trace) : trace[j].ev \in kinds}

MountCalls == Evs({"mount.TryMount", "mount.Mount"})

\* Every call of loopSetup starts with one call of loop.FindDevice.
LoopSetupCalls == Evs({"loop.FindDevice"})

LoopCalls == Evs({"loop.FindDevice", "loop.SetFile"})

LoopFailures == {j \in LoopCalls : ~trace[j].ok}

Probes == {j \in Evs({"read"}) : trace[j].path = "/proc/filesystems"}

Hints == {j \in Evs({"log"}) : trace[j].fmt = HintFmt}

\* The stated priority order of the mount-table files.
ListingOrder == <<"/proc/self/mounts", "/proc/mounts", "/etc/mtab">>

ReadableTables == {j \in 1..3 : files[ListingOrder[j]].ok}

FirstReadable == CHOOSE j \in ReadableTables : \A h \in ReadableTables : j <= h

\* The run got past the listing check and the usage check.
ReachesTranslation == ReadableTables = {} /\ parse.status = "ok" /\ Len(args) >= 2

Bit(x, b) == (x \div (2 ^ b)) % 2 = 1

RECURSIVE BitAnd(_, _)
BitAnd(a, b) ==
    IF a = 0 \/ b = 0 THEN 0
    ELSE (IF a % 2 = 1 /\ b % 2 = 1 THEN 1 ELSE 0) + 2 * BitAnd(a \div 2, b \div 2)

\* Every bit of m is set in x.
HasAll(x, m) == BitAnd(x, m) = m

----------------------------------------------------------------------------
(* C1 *)

\* C1: whenever one of the three mount-table files is readable, the run prints
\* the contents of the first readable one in priority order and exits 0; it
\* reads no later file, prints nothing else, and calls neither the loop binder
\* nor a mount primitive, whatever the command line is.
C1_NoListingShortCircuit ==
    ReadableTables # {} =>
        /\ pc \in {"list", "exited"}
        /\ pc = "list" => k <= FirstReadable
        /\ LoopCalls = {} /\ MountCalls = {}
        /\ \A j \in Evs({"read"}) :
               \E h \in 1..FirstReadable : trace[j].path = ListingOrder[h]
        /\ \A j \in Evs({"stdout"}) :
               trace[j].text = files[ListingOrder[FirstReadable]].data
        /\ Cardinality(Evs({"stdout"})) <= 1
        /\ pc = "exited" =>
               /\ exitCode = 0
               /\ Cardinality(Evs({"stdout"})) = 1
               /\ trace[Len(trace)] = ExitEv(0)
               /\ Cardinality(Evs({"exit"})) = 1

\* The second and third files are readable, the first is not, and the command
\* line is a full mount request with a loop option: the second file is printed.
C1_Witness ==
    /\ pc = "exited"
    /\ ReadableTables = {2, 3}
    /\ Len(args) = 2
    /\ "loop" \in Range(oValues)
    /\ Evs({"stdout"}) # {}

----------------------------------------------------------------------------
(* C2 *)

\* C2 as stated: when no mount-table file is readable and fewer than two
\* positional arguments are given, the run prints usage and exits 1, and calls
\* neither the loop binder nor a mount primitive, also when the options
\* contain "loop".
C2_UsageError_AsStated ==
    (ReadableTables = {} /\ Len(args) < 2) =>
        /\ pc \in {"list", "args", "exited"}
        /\ LoopCalls = {} /\ MountCalls = {}
        /\ pc = "exited" =>
               /\ exitCode = 1
               /\ Len(trace) >= 2
               /\ SubSeq(trace, Len(trace) - 1, Len(trace)) = <<UsageEv, ExitEv(1)>>
               /\ Cardinality(Evs({"usage"})) = 1

\* C2: when no mount-table file is readable and fewer than two positional
\* arguments are given, the run prints usage once and calls neither the loop
\* binder nor a mount primitive, also when the options contain "loop"; it
\* exits 1 if flag.Parse accepts the command line, 2 if flag.Parse rejects an
\* argument, and 0 or 2 if the command line asks for help.
C2_UsageError ==
    (ReadableTables = {} /\ Len(args) < 2) =>
        /\ pc \in {"list", "args", "exited"}
        /\ LoopCalls = {} /\ MountCalls = {}
        /\ pc = "exited" =>
               /\ Cardinality(Evs({"usage"})) = 1
               /\ trace[Len(trace)] = ExitEv(exitCode)
               /\ parse.status = "ok" =>
                      /\ exitCode = 1
                      /\ SubSeq(trace, Len(trace) - 1, Len(trace)) = <<UsageEv, ExitEv(1)>>
               /\ parse.status = "badflag" => exitCode = 2
               /\ parse.status = "help" => exitCode \in {0, 2}

\* One positional argument, "loop" among the accumulated options, a command
\* line flag.Parse accepts.
C2_Witness ==
    /\ pc = "exited"
    /\ ReadableTables = {}
    /\ parse.status = "ok"
    /\ Len(args) = 1
    /\ "loop" \in Range(options)
    /\ Evs({"usage"}) # {}

----------------------------------------------------------------------------
(* C3 *)

\* C3: every run that reaches translation with "loop" among its options, however
\* many times, calls the loop binder exactly once, and the device passed to the
\* mount primitive is the path that bind returned, never the original device.
C3_LoopBoundOnce ==
    (pc = "exited" /\ ReachesTranslation /\ "loop" \in Range(options)) =>
        /\ Cardinality(LoopSetupCalls) = 1
        /\ \A m \in MountCalls :
               /\ trace[m].dev # args[1]
               /\ \E j \in LoopSetupCalls : trace[j].ok /\ trace[m].dev = trace[j].dev

----------------------------------------------------------------------------
(* C4 *)

\* Some option present, other than "loop", whose table entry has bit b.
TokenHasBit(b) ==
    \E t \in Range(options) : t # "loop" /\ t \in DOMAIN opts /\ Bit(opts[t], b)

\* The bits the convenience switches stand for.
SwitchMasks ==
    {MS_RDONLY : s \in switches \cap {"r"}}
    \cup {MS_BIND : s \in switches \cap {"bind", "rbind"}}
    \cup {MS_SHARED : s \in switches \cap {"make-shared", "make-rshared"}}
    \cup {MS_SLAVE : s \in switches \cap {"make-slave", "make-rslave"}}
    \cup {MS_PRIVATE : s \in switches \cap {"make-private", "make-rprivate"}}
    \cup {MS_UNBINDABLE : s \in switches \cap {"make-unbindable", "make-runbindable"}}
    \cup {m \in {MS_BIND, MS_REC} :
             switches \cap {"rbind", "make-rshared", "make-rslave", "make-rprivate",
                            "make-runbindable"} # {}}

SwitchHasBit(b) == \E m \in SwitchMasks : Bit(m, b)

\* C4: the flags passed to the mount primitive are, bit for bit, the OR of the
\* table entries of the options present (other than "loop") and of the bits of
\* the convenience switches, a function of the set of options alone (so the
\* same for every order and repetition); and no step of the run clears a bit
\* of flags.
C4_FlagsAreOrOfEntries ==
    /\ [](\A m \in MountCalls :
             /\ trace[m].flags < 2 ^ 21
             /\ \A b \in 0..20 :
                    Bit(trace[m].flags, b) <=> (TokenHasBit(b) \/ SwitchHasBit(b)))
    /\ [][\A b \in 0..20 : Bit(flags, b) => Bit(flags', b)]_vars

\* A mount call after the same options were given twice, in a run where a
\* switch contributes bits that options contribute too.
C4_Witness ==
    /\ MountCalls # {}
    /\ oValues = <<"rec,bind", "rec,bind">>
    /\ switches = {"r", "bind"}
    /\ flags = MS_RDONLY + MS_BIND + MS_REC

----------------------------------------------------------------------------
(* C5 *)

IsDataOption(t) == t # "loop" /\ t \notin DOMAIN opts

\* C5: dataOptions passed to the mount primitive is the comma-join, in order and
\* with repetitions, of exactly the options that are neither "loop" nor in the
\* table, empty options included (the options being the pieces of the -o values
\* between commas); none of its pieces is "loop" or in the table; such options
\* set no bit of flags and stop no run.
C5_DataOptionsPassThrough ==
    /\ (ReadableTables = {} /\ pc # "list" /\ parse.at > 0) =>
           /\ Join(options, ",") = Join(SubSeq(oValues, 1, parse.at), ",")
           /\ \A t \in Range(options) : IndexOf(t, ",") = 0
    /\ \A m \in MountCalls :
           /\ trace[m].data = Join(SelectSeq(options, IsDataOption), ",")
           /\ \A t \in Range(Split(trace[m].data, ",")) : IsDataOption(t)
           /\ \A b \in 0..20 :
                  Bit(trace[m].flags, b) => (TokenHasBit(b) \/ SwitchHasBit(b))
    /\ (pc = "exited" /\ ReachesTranslation /\ "loop" \notin Range(options)) =>
           MountCalls # {}

\* A mount call with two different unknown options in one order and an empty
\* option between them.
C5_Witness ==
    /\ MountCalls # {}
    /\ oValues = <<"uid=0,,nosuid", "rdonly,gid=1">>
    /\ \E m \in MountCalls : trace[m].data = "uid=0,,gid=1"

----------------------------------------------------------------------------
(* C6 *)

RecursiveSwitches ==
    {"rbind", "make-rshared", "make-rslave", "make-rprivate", "make-runbindable"}

OwnBit(s) ==
    CASE s = "make-rshared"     -> MS_SHARED
      [] s = "make-rslave"      -> MS_SLAVE
      [] s = "make-rprivate"    -> MS_PRIVATE
      [] s = "make-runbindable" -> MS_UNBINDABLE
      [] s = "rbind"            -> MS_BIND

\* C6: with at least one recursive switch set, flags holds BIND and RECURSIVE
\* and the own bit of every recursive propagation switch set, whether one or
\* several are set; with none set, the switches give no RECURSIVE bit (it is
\* set only by a "rec" option) and BIND only for -bind (or a "bind" option).
C6_RecursiveSwitches ==
    \A m \in MountCalls :
        LET f == trace[m].flags
            R == switches \cap RecursiveSwitches
        IN  /\ R # {} =>
                   /\ HasAll(f, MS_BIND + MS_REC)
                   /\ \A s \in R : HasAll(f, OwnBit(s))
            /\ R = {} =>
                   /\ HasAll(f, MS_REC) => "rec" \in Range(options)
                   /\ HasAll(f, MS_BIND) =>
                          ("bind" \in switches \/ "bind" \in Range(options))

\* Two recursive propagation switches, no -bind, no -rbind, no options.
C6_Witness ==
    /\ MountCalls # {}
    /\ switches = {"make-rshared", "make-rprivate"}
    /\ options = <<>>
    /\ flags = MS_BIND + MS_REC + MS_SHARED + MS_PRIVATE

----------------------------------------------------------------------------
(* C7 *)

\* C7: once a loop-bind call has failed (in loop.FindDevice or in loop.SetFile)
\* the run is over with a non-zero status: the error is logged and the process
\* exits right after the failing call, so the bind is not retried, no mount
\* primitive is called, the option being translated is still the failing
\* "loop" (no later option is touched) and /proc/filesystems is not read.
C7_LoopFailureIsFatal ==
    \A j \in LoopFailures :
        /\ pc = "exited"
        /\ exitCode = 1
        /\ Len(trace) = j + 2
        /\ trace[j + 1].ev = "log"
        /\ trace[j + 1].fmt = "Error setting loop device:"
        /\ trace[j + 2] = ExitEv(1)
        /\ MountCalls = {}
        /\ Probes = {}
        /\ i \in 1..Len(options)
        /\ options[i] = "loop"
        /\ Cardinality({h \in 1..i : options[h] = "loop"}) = Cardinality(LoopSetupCalls)
        /\ Len(data) = Len(SelectSeq(SubSeq(options, 1, i), IsDataOption))

\* loop.SetFile fails on the first "loop" while a second "loop" is still to
\* come.
C7_Witness ==
    /\ \E j \in LoopFailures : trace[j].ev = "loop.SetFile"
    /\ i < Len(options)
    /\ options[i + 1] = "loop"

----------------------------------------------------------------------------
(* C8 *)

\* C8: a run that got past the listing check, the usage check and translation
\* never calls a mount primitive twice, and when it is over it has called one
\* exactly once: mount.TryMount when -t is empty, mount.Mount with that type
\* otherwise, with the translated device, the path, the joined data options
\* and the flags (no options, no switches: flags 0, data ""); it exits 0 if
\* the call succeeded and 1 if not, and on the TryMount path /proc/filesystems
\* is never read.
C8_MountDispatch ==
    /\ Cardinality(MountCalls) <= 1
    /\ (pc = "exited" /\ ReachesTranslation /\ LoopFailures = {}) =>
           /\ Cardinality(MountCalls) = 1
           /\ \A m \in MountCalls :
                  LET c == trace[m]
                      binds == {j \in LoopCalls : trace[j].ev = "loop.SetFile"}
                  IN  /\ c.ev = "mount.TryMount" <=> fsType = ""
                      /\ c.ev = "mount.Mount" => c.fstype = fsType
                      /\ c.dev = dev
                      /\ binds = {} => c.dev = args[1]
                      /\ binds # {} =>
                             \E j \in binds : /\ \A h \in binds : h <= j
                                              /\ c.dev = trace[j].dev
                      /\ c.path = args[2]
                      /\ c.data = Join(data, ",")
                      /\ c.flags = flags
                      /\ (oValues = <<>> /\ switches = {}) =>
                             (c.flags = 0 /\ c.data = "")
                      /\ exitCode = 0 <=> c.ok
                      /\ ~c.ok => exitCode = 1
                      /\ c.ev = "mount.TryMount" => Probes = {}
                      /\ trace[Len(trace)] = ExitEv(exitCode)

\* device and path only, no options, no switches, no type: TryMount is called
\* with flags 0 and data "", and succeeds.
C8_Witness ==
    /\ pc = "exited"
    /\ exitCode = 0
    /\ oValues = <<>> /\ switches = {} /\ fsType = ""
    /\ \E m \in MountCalls :
           trace[m] = MountEv("mount.TryMount", "backing.img", "/mnt", "", "", 0, TRUE)

----------------------------------------------------------------------------
(* C9 *)

IsNonBlank(line) == Len(line) > 0

\* The last field of every non-blank line of the listing, in file order.
KnownTypes ==
    LET nb == SelectSeq(kernelFS, IsNonBlank)
    IN  [j \in 1..Len(nb) |-> Runes(nb[j][Len(nb[j])])]

MountFailed == \E m \in MountCalls : trace[m].ev = "mount.Mount" /\ ~trace[m].ok

\* C9: after a failed mount.Mount with type T and a readable /proc/filesystems,
\* the hint is logged if and only if T is the last field of no line; it names T
\* and lists the last field of every non-blank line in file order; a line with
\* a flag field before T counts as naming T; the run ends non-zero either way.
C9_UnknownFilesystemHint ==
    (MountFailed /\ files["/proc/filesystems"].ok /\ pc \in {"exit1", "exited"}) =>
        /\ Hints # {} <=> Runes(fsType) \notin Range(KnownTypes)
        /\ Cardinality(Hints) <= 1
        /\ \A h \in Hints : trace[h].args = <<fsType, KnownTypes>>
        /\ pc = "exited" => exitCode = 1

\* -t ext9 fails while the listing holds the line "nodev ext9", its fields
\* separated by U+00A0, and a blank line: no hint.
C9_Witness ==
    /\ pc = "exited"
    /\ MountFailed
    /\ fsType = "ext9"
    /\ kernelFS = << <<"nodev", "ext9">>, <<>>, <<"ext4">> >>
    /\ files["/proc/filesystems"].ok
    /\ 160 \in Range(files["/proc/filesystems"].data)
    /\ Hints = {}

----------------------------------------------------------------------------
(* C10 *)

\* C10: /proc/filesystems is read at most once, and only right after a failed
\* mount.Mount call and the log line reporting its error; if the read fails
\* nothing is logged after it; whatever the read gives, the run then exits 1,
\* with nothing logged but the hint.
C10_ProbeErrorsAbsorbed ==
    /\ Cardinality(Probes) <= 1
    /\ \A p \in Probes :
           /\ p >= 3
           /\ trace[p - 2].ev = "mount.Mount" /\ ~trace[p - 2].ok
           /\ trace[p - 1] = LogEv("%v", <<"mount error">>)
           /\ ~trace[p].ok => \A j \in (p + 1)..Len(trace) : trace[j] = ExitEv(1)
           /\ \A j \in (p + 1)..Len(trace) : j \in Hints \/ trace[j] = ExitEv(1)
    /\ Probes = {} => Hints = {}
    /\ (MountFailed /\ pc = "exited") =>
           /\ Cardinality(Probes) = 1
           /\ exitCode = 1
           /\ trace[Len(trace)] = ExitEv(1)

\* The explicit-type mount failed and /proc/filesystems could not be read.
C10_Witness ==
    /\ pc = "exited"
    /\ MountFailed
    /\ \E p \in Probes : ~trace[p].ok

====
